---------------------------- MODULE Spec2Model ----------------------------
(***************************************************************************)
(* xDSnap: the capture command (NewCaptureCommand), one capture cycle      *)
(* (CaptureSnapshot) and the cluster gateway it drives                     *)
(* (KubernetesApiServiceImpl), as one state machine.                       *)
(*                                                                         *)
(* The command loop and CaptureSnapshot are the versions that call         *)
(* CreatePrivilegedDebugPod / CreateConcurrentTcpdumpCapturePod; the       *)
(* gateway is the one that implements both on ephemeral containers         *)
(* ("Return a synthetic name so existing callers don't break").            *)
(*                                                                         *)
(* Remote calls are environment steps: each outcome the API server can     *)
(* produce is a nondeterministic choice.                                   *)
(***************************************************************************)
EXTENDS Integers, Sequences, FiniteSets, TLC

(***************************************************************************)
(* Bounds of the model.                                                    *)
(***************************************************************************)
\* largest --repeat value tried; also the cap on cycles of a run that has
\* no other stop condition within the model
MaxRepeat == 2
\* chunks of log data a stream can deliver
MaxChunks == 2
\* poll ticks that fit into an ephemeral task's timeout (timeout / sleep)
MaxPolls == 1
\* how often os.MkdirAll of the snapshot directory may fail in a row
MaxMkdirFails == 1

(***************************************************************************)
(* Program constants.                                                      *)
(***************************************************************************)
maxRetries == 5
MinInterval == 5
DefaultEndpoints == <<"/stats", "/config_dump", "/listeners", "/clusters", "/certs">>
SidecarNames == <<"consul-dataplane", "envoy-sidecar">>
TcpdumpCandidates == <<"consul-dataplane", "envoy-sidecar", "mesh-gateway", "api-gateway">>

(***************************************************************************)
(* Inputs.                                                                 *)
(***************************************************************************)
\* payloads a remote command or stream can deliver: nothing, or some bytes
EmptyPayload == <<>>
SomePayload == <<1>>
Payloads == {EmptyPayload, SomePayload}

\* pods of the namespace that carry the connect-inject annotation
MeshPods == <<"p1", "p2">>

\* container lists ListContainers can report for a pod
ContainerLists ==
    { <<"app", "consul-dataplane">>, <<"app", "envoy-sidecar">>, <<"app">> }

\* elapsed seconds a capture cycle can add to the wall clock
CycleSeconds == {0, 5}

\* the flag values of a run
Flags(pod, container, eps, sleep, dur, rep, trace, tcpdump) ==
    [ podName |-> pod, containerName |-> container, endpoints |-> eps,
      interval |-> sleep, duration |-> dur, repeat |-> rep,
      enableTrace |-> trace, tcpdumpEnabled |-> tcpdump ]

Configs ==
    \* duration mode on one named pod, 10 s
    { Flags("p1", "app", <<"/stats">>, 5, 10, 0, FALSE, FALSE) }
    \* duration mode with a duration of one interval
    \cup { Flags("p1", "", <<"/stats">>, 5, 5, 0, FALSE, FALSE) }
    \* --duration 0 without a repeat count
    \cup { Flags("p1", "", <<"/stats">>, 5, 0, 0, FALSE, FALSE) }
    \* repeat mode on one named pod
    \cup { Flags("p1", "app", <<"/stats">>, 5, 5, r, FALSE, FALSE) : r \in 1..MaxRepeat }
    \* packet capture at trace level
    \cup { Flags("p1", "app", <<"/stats">>, 5, 10, 1, TRUE, TRUE) }
    \* packet capture asked for together with a repeat count
    \cup { Flags("p1", "", <<"/stats">>, 5, 10, 2, FALSE, TRUE) }
    \* the primary container is the sidecar the pod may turn out to have
    \cup { Flags("p1", "envoy-sidecar", <<"/stats">>, 5, 10, 1, FALSE, FALSE) }
    \* all annotated pods
    \cup { Flags("", "", <<"/stats">>, 5, 10, 1, FALSE, FALSE) }
    \* the flag defaults: no --container, no --endpoints
    \cup { Flags("p1", "", <<>>, 5, 10, 1, FALSE, FALSE) }
    \* rejected flag values
    \cup { Flags(p, "consul-dataplane", <<"/stats">>, i, 10, 1, FALSE, FALSE) :
             p \in {"", "p1"}, i \in {4, 5} }
    \cup { Flags(p, "app", <<"/stats">>, 4, 10, 1, FALSE, FALSE) : p \in {"", "p1"} }

VARIABLES
    cfg,            \* the flags
    lpc,            \* position in the command's Run function
    podsToCapture,  \* the targets
    captures,       \* completed iterations of the capture loop
    started,        \* startTime is set
    elapsed,        \* time.Since(startTime), seconds
    podIdx,         \* position in the range over podsToCapture
    mkdirFails,     \* failed MkdirAll calls since the last one that succeeded
    sleeps,         \* inter-cycle sleeps so far
    cpc,            \* position in CaptureSnapshot
    snap,           \* CaptureSnapshot's config argument
    tempDir,        \* files of the cycle's working directory
    hasTemp,        \* the working directory exists
    worker,         \* the log-stream goroutines, one per slot
    logResults,     \* signals in the logResults channel
    joined,         \* signals the join loop has received
    epIdx,          \* position in the range over config.Endpoints
    fetch,          \* fetchEnvoyEndpoint's loop state and result
    archive,        \* state of the output file <pod>_snapshot.tar.gz
    snapErr,        \* CaptureSnapshot's return value
    trace,          \* the stages this call of CaptureSnapshot has entered, in order
    eph,            \* the ephemeral-container call in progress
    tasks,          \* ephemeral tasks this cycle created
    ephName,        \* the name CreatePrivilegedDebugPod / tcpdump returned
    verb,           \* per pod: verbosity raised and not reset, resets tried, last cycle
                    \* captured, last cycle in which the loop reached the pod
    logFailed,      \* slots whose stream failure the cycle has logged
    remoteCalls,    \* a request to the cluster has been issued
    pf,             \* the PortForwardGET call in progress or last made
    sl,             \* one log worker's streamLogsWithTimeout call and its WriteFile
    tt              \* a CreateConcurrentTcpdumpCapturePod call's probes and its target

loopVars == <<lpc, podsToCapture, captures, started, elapsed, podIdx, mkdirFails, sleeps>>
cycleVars == <<cpc, snap, tempDir, hasTemp, worker, logResults, joined, epIdx, fetch,
               archive, snapErr, trace>>
kubeVars == <<eph, tasks, ephName>>
vars == <<cfg, loopVars, cycleVars, kubeVars, verb, logFailed, remoteCalls, pf, sl, tt>>


AllPods == {MeshPods[i] : i \in 1..Len(MeshPods)}

\* what a ListContainers call can return: an error, or a container list
ListResults ==
    { [err |-> TRUE, list |-> <<>>] } \cup { [err |-> FALSE, list |-> l] : l \in ContainerLists }

Range(s) == {s[i] : i \in 1..Len(s)}

At(stage, step) == cpc = [stage |-> stage, step |-> step]
Goto(stage, step) == cpc' = [stage |-> stage, step |-> step]

\* the record of the stages entered: a stage is added when control enters it
Track == trace' = IF cpc'.stage # cpc.stage THEN Append(trace, cpc'.stage) ELSE trace

NoFetch == [i |-> 0, done |-> FALSE, ok |-> FALSE, data |-> EmptyPayload, attempts |-> 0,
            errEndpoint |-> "", errRetries |-> 0, execPathWorks |-> FALSE]
NoEph == [pc |-> "none", kind |-> "", purpose |-> "", container |-> "", polls |-> 0, tid |-> 0,
          state |-> "absent"]
NoArchive == [state |-> "none", entries |-> <<>>, err |-> FALSE]
NoPf == [pc |-> "idle", pod |-> "", podPort |-> 0, path |-> "", fw |-> "none", ready |-> FALSE,
         done |-> <<>>, stops |-> 0, gets |-> 0, sel |-> "", status |-> 0,
         response |-> EmptyPayload, err |-> "", body |-> EmptyPayload]
NoSl == [pc |-> "idle", container |-> "", fetch |-> "none", buf |-> <<>>, done |-> <<>>,
         ctx |-> "live", sel |-> "", writer |-> FALSE, collected |-> <<>>,
         bytes |-> <<>>, err |-> FALSE, wrote |-> "", file |-> <<"none">>, logged |-> FALSE]
NoTt == [pc |-> "idle", pod |-> <<>>, results |-> <<>>, containers |-> <<>>, err |-> FALSE,
         target |-> "", started |-> FALSE]
NoSnap == [PodName |-> "", ContainerName |-> "", Endpoints |-> <<>>, ExtraLogs |-> <<>>,
           EnableTrace |-> FALSE, TcpdumpEnabled |-> FALSE, SkipLogLevelReset |-> FALSE]

Init ==
    /\ cfg \in Configs
    /\ lpc = "check_container"
    /\ podsToCapture = <<>>
    /\ captures = 0
    /\ started = FALSE
    /\ elapsed = 0
    /\ podIdx = 0
    /\ mkdirFails = 0
    /\ sleeps = 0
    /\ cpc = [stage |-> "idle", step |-> ""]
    /\ snap = NoSnap
    /\ tempDir = {}
    /\ hasTemp = FALSE
    /\ worker = <<>>
    /\ logResults = 0
    /\ joined = 0
    /\ epIdx = 0
    /\ fetch = NoFetch
    /\ archive = NoArchive
    /\ snapErr = ""
    /\ trace = <<>>
    /\ logFailed = {}
    /\ remoteCalls = FALSE
    /\ pf = NoPf
    /\ sl = NoSl
    /\ tt = NoTt
    /\ eph = NoEph
    /\ tasks = <<>>
    /\ ephName = 0
    /\ verb = [p \in AllPods |-> [raised |-> FALSE, resets |-> 0, lastCycle |-> -1, seen |-> -1]]

(***************************************************************************)
(* NewCaptureCommand: the Run function.                                    *)
(***************************************************************************)

\* if containerName == "consul-dataplane" { log.Fatal(...) }
CheckContainer ==
    /\ lpc = "check_container"
    /\ lpc' = IF cfg.containerName = "consul-dataplane" THEN "fatal" ELSE "new_client"
    /\ UNCHANGED <<cfg, podsToCapture, captures, started, elapsed, podIdx, mkdirFails,
                   sleeps, cycleVars, kubeVars, verb>>
    /\ UNCHANGED <<logFailed, remoteCalls>>
    /\ UNCHANGED <<pf, sl, tt>>

\* rest.InClusterConfig / ToRESTConfig / kubernetes.NewForConfig: fatal on failure
NewClient ==
    /\ lpc = "new_client"
    /\ \E ok \in BOOLEAN : lpc' = IF ok THEN "list_pods" ELSE "fatal"
    /\ UNCHANGED <<cfg, podsToCapture, captures, started, elapsed, podIdx, mkdirFails,
                   sleeps, cycleVars, kubeVars, verb>>
    /\ UNCHANGED <<logFailed, remoteCalls>>
    /\ UNCHANGED <<pf, sl, tt>>

\* the annotated pods of a pod list, in list order
AnnotatedPods == { <<>>, <<MeshPods[1]>>, MeshPods }

\* podName == "": list the namespace's pods and keep the annotated ones
ListPods ==
    /\ lpc = "list_pods"
    /\ IF cfg.podName = ""
       THEN \E r \in { [err |-> TRUE, pods |-> <<>>] }
                     \cup { [err |-> FALSE, pods |-> ps] : ps \in AnnotatedPods } :
              /\ lpc' = IF r.err THEN "fatal"
                        ELSE IF Len(r.pods) = 0 THEN "done" ELSE "check_interval"
              /\ podsToCapture' = r.pods
       ELSE /\ lpc' = "check_interval"
            /\ podsToCapture' = <<cfg.podName>>
    /\ UNCHANGED <<cfg, captures, started, elapsed, podIdx, mkdirFails,
                   sleeps, cycleVars, kubeVars, verb>>
    /\ remoteCalls' = (remoteCalls \/ cfg.podName = "")
    /\ UNCHANGED logFailed
    /\ UNCHANGED <<pf, sl, tt>>

\* if interval < 5 { log.Fatalf(...) }
CheckInterval ==
    /\ lpc = "check_interval"
    /\ lpc' = IF cfg.interval < MinInterval THEN "fatal" ELSE "loop"
    /\ UNCHANGED <<cfg, podsToCapture, captures, started, elapsed, podIdx, mkdirFails,
                   sleeps, cycleVars, kubeVars, verb>>
    /\ UNCHANGED <<logFailed, remoteCalls>>
    /\ UNCHANGED <<pf, sl, tt>>

StopByRepeat == cfg.repeat > 0 /\ captures >= cfg.repeat
\* a loop in which the duration bound applies whether or not repeat is set
DurationModeIgnoringRepeat(c) == c.duration > 0

\* repeat == 0 && duration > 0: duration is the stop condition
DurationMode(c) == c.repeat = 0 /\ c.duration > 0

\* a clock that runs from the start of the command
ClockStartedAtCommandStart(isStarted) == TRUE

\* !startTime.IsZero(): the clock runs once startTime was set, which is done
\* just before the first CaptureSnapshot call
ClockStarted(isStarted) == isStarted

\* the duration check at the top of an iteration
StopByDuration ==
    DurationMode(cfg) /\ ClockStarted(started) /\ elapsed >= cfg.duration

\* top of the for loop: the two stop checks, then MkdirAll(snapshotDir)
LoopTop ==
    /\ lpc = "loop"
    /\ IF StopByRepeat \/ StopByDuration
       THEN /\ lpc' = "done"
            /\ UNCHANGED <<podIdx, mkdirFails>>
       ELSE /\ captures < MaxRepeat
            /\ \E ok \in BOOLEAN :
                 IF ok
                 THEN /\ lpc' = "pods"
                      /\ podIdx' = 1
                      /\ mkdirFails' = 0
                 ELSE \* continue
                      /\ mkdirFails < MaxMkdirFails
                      /\ mkdirFails' = mkdirFails + 1
                      /\ UNCHANGED <<lpc, podIdx>>
    /\ UNCHANGED <<cfg, podsToCapture, captures, started, elapsed, sleeps,
                   cycleVars, kubeVars, verb>>
    /\ UNCHANGED <<logFailed, remoteCalls>>
    /\ UNCHANGED <<pf, sl, tt>>

\* the first known sidecar in a container list, "" if there is none
RECURSIVE FindSidecar(_)
FindSidecar(containers) ==
    IF containers = <<>> THEN ""
    ELSE IF Head(containers) \in Range(SidecarNames) THEN Head(containers)
    ELSE FindSidecar(Tail(containers))

\* a loop that marks only the last cycle of a repeat count as final
FinalResetRepeatOnly(repeat, done) == done = repeat - 1

\* finalReset := repeat == 0 || captures == repeat-1
FinalReset(repeat, done) == repeat = 0 \/ done = repeat - 1

\* a range over the targets that a failed target ends
NextTargetStopsOnFailure(idx, n, failed) == IF failed THEN n + 1 ELSE idx + 1

\* "continue" after a target that is skipped, and the plain end of the loop
\* body after a CaptureSnapshot call whose error is only logged
NextTarget(idx, n, failed) == idx + 1

\* one target of the cycle: ListContainers, sidecar detection, the call
TargetPod ==
    /\ lpc = "pods"
    /\ At("idle", "")
    /\ podIdx <= Len(podsToCapture)
    /\ \E r \in ListResults :
         LET pod == podsToCapture[podIdx]
             sidecar == FindSidecar(r.list)
         IN IF r.err \/ sidecar = ""
            THEN \* continue
                 /\ podIdx' = NextTarget(podIdx, Len(podsToCapture), TRUE)
                 /\ verb' = [verb EXCEPT ![pod].seen = captures]
                 /\ UNCHANGED <<started, elapsed, cycleVars>>
            ELSE /\ snap' = [PodName |-> pod,
                             ContainerName |-> cfg.containerName,
                             Endpoints |-> cfg.endpoints,
                             ExtraLogs |-> <<sidecar>>,
                             EnableTrace |-> cfg.enableTrace,
                             TcpdumpEnabled |-> cfg.tcpdumpEnabled,
                             SkipLogLevelReset |-> ~FinalReset(cfg.repeat, captures)]
                 /\ started' = (started \/ DurationMode(cfg))
                 /\ UNCHANGED elapsed
                 /\ Goto("start", "")
                 /\ verb' = [verb EXCEPT ![pod].lastCycle = captures,
                                          ![pod].seen = captures]
                 /\ UNCHANGED <<podIdx, tempDir, hasTemp, worker, logResults, joined,
                                epIdx, fetch, archive, snapErr, trace>>
    /\ UNCHANGED <<cfg, lpc, podsToCapture, captures, mkdirFails, sleeps, kubeVars>>
    /\ remoteCalls' = TRUE
    /\ UNCHANGED logFailed
    /\ UNCHANGED <<pf, sl, tt>>

\* after the range over the pods: captures++, then the inter-cycle sleep
EndIteration ==
    /\ lpc = "pods"
    /\ At("idle", "")
    /\ podIdx > Len(podsToCapture)
    /\ captures' = captures + 1
    /\ LET sleep == (cfg.repeat > 0 /\ captures' < cfg.repeat) \/ cfg.repeat = 0
       IN /\ sleeps' = IF sleep THEN sleeps + 1 ELSE sleeps
          /\ elapsed' = IF sleep /\ ClockStarted(started) THEN elapsed + cfg.interval
                         ELSE elapsed
    /\ lpc' = "loop"
    /\ UNCHANGED <<cfg, podsToCapture, started, podIdx, mkdirFails, cycleVars, kubeVars, verb>>
    /\ UNCHANGED <<logFailed, remoteCalls>>
    /\ UNCHANGED <<pf, sl, tt>>

(***************************************************************************)
(* CaptureSnapshot.                                                        *)
(***************************************************************************)

\* a file of the working directory or of the archive
File(kind, name, data) == [kind |-> kind, name |-> name, data |-> data]

\* config.Endpoints, or DefaultEndpoints when none were given
EffectiveEndpoints(c) == IF Len(c.Endpoints) = 0 THEN DefaultEndpoints ELSE c.Endpoints

\* append([]string{config.ContainerName}, config.ExtraLogs...)
LogSlots(c) == <<c.ContainerName>> \o c.ExtraLogs

\* a channel with room for the extra containers' signals only
LogResultsCapExtraOnly(c) == Len(c.ExtraLogs)

\* cap(logResults): make(chan struct{}, len(config.ExtraLogs)+1)
LogResultsCap(c) == Len(c.ExtraLogs) + 1

\* entry: default endpoints, MkdirTemp, the deferred RemoveAll, the log fan-out
SnapStart ==
    /\ At("start", "")
    /\ \E ok \in BOOLEAN :
         IF ~ok
         THEN \* return fmt.Errorf("failed to create temporary directory")
              /\ snapErr' = "mkdtemp"
              /\ Goto("ret", "")
              /\ trace' = <<"ret">>
              /\ UNCHANGED <<tempDir, hasTemp, worker, logResults>>
         ELSE /\ snapErr' = ""
              /\ hasTemp' = TRUE
              /\ tempDir' = {}
              /\ worker' = [i \in 1..Len(LogSlots(snap)) |->
                              IF LogSlots(snap)[i] = "" THEN "none" ELSE "run"]
              /\ logResults' = Cardinality({i \in 1..Len(LogSlots(snap)) : LogSlots(snap)[i] = ""})
              /\ Goto("raise", "create")
              /\ trace' = <<"raise">>
    /\ joined' = 0
    /\ epIdx' = 1
    /\ fetch' = NoFetch
    /\ archive' = NoArchive
    /\ tasks' = <<>>
    /\ ephName' = 0
    /\ UNCHANGED <<cfg, loopVars, snap, eph, verb>>
    /\ logFailed' = {}
    /\ UNCHANGED remoteCalls
    /\ UNCHANGED <<pf, sl, tt>>

\* os.WriteFile: the open can fail (no file), the write can fail after the open
\* (a file that lacks the data), or both succeed
WriteFileOutcomes == {"open_fail", "write_fail", "ok"}

\* the name a file has in the working directory: "%s-logs.txt" for a
\* container's logs, <endpoint without the slash> + ".json" for an endpoint,
\* the tar header's name for a packet capture
FileName(f) ==
    CASE f.kind = "logs" -> <<f.name, "-logs.txt">>
      [] f.kind = "json" -> <<f.name, ".json">>
      [] OTHER -> <<f.name, ".pcap">>

\* the directory after WriteFile(name, data) ended with the given outcome:
\* O_CREATE|O_TRUNC replaces a file of the same name
WriteFile(dir, kind, name, data, outcome) ==
    IF outcome = "open_fail" THEN dir
    ELSE { f \in dir : FileName(f) # FileName(File(kind, name, data)) }
         \cup {File(kind, name, IF outcome = "ok" THEN data ELSE EmptyPayload)}

\* a worker that writes the logs file whatever the stream returned
WritesLogsAlways(err) == TRUE

\* if err != nil { log.Printf("Failed to stream logs ...") } else { WriteFile }
WritesLogs(err) == ~err

\* a log worker: streamLogsWithTimeout, then WriteFile of <container>-logs.txt.
\* The nil-error results are both the stream that ended and the stream still
\* open at its deadline (duration + 10 s): either way the bytes read so far
\* are returned without an error
StreamLogs(i) ==
    /\ i \in DOMAIN worker
    /\ worker[i] = "run"
    /\ \E r \in { [err |-> TRUE, data |-> EmptyPayload] }
                \cup { [err |-> FALSE, data |-> d] : d \in Payloads },
          w \in WriteFileOutcomes :
         /\ tempDir' = IF WritesLogs(r.err) /\ hasTemp
                       THEN WriteFile(tempDir, "logs", LogSlots(snap)[i], r.data, w)
                       ELSE tempDir
         /\ logFailed' = IF r.err THEN logFailed \cup {i} ELSE logFailed
    /\ worker' = [worker EXCEPT ![i] = "signal"]
    /\ UNCHANGED <<cfg, loopVars, cpc, snap, hasTemp, logResults, joined, epIdx, fetch,
                   archive, snapErr, kubeVars, verb, trace>>
    /\ UNCHANGED remoteCalls
    /\ UNCHANGED <<pf, sl, tt>>

\* a log worker: logResults <- struct{}{}
SignalLogResult(i) ==
    /\ i \in DOMAIN worker
    /\ worker[i] = "signal"
    /\ logResults < LogResultsCap(snap)
    /\ logResults' = logResults + 1
    /\ worker' = [worker EXCEPT ![i] = "done"]
    /\ UNCHANGED <<cfg, loopVars, cpc, snap, tempDir, hasTemp, joined, epIdx, fetch,
                   archive, snapErr, kubeVars, verb, trace>>
    /\ UNCHANGED <<logFailed, remoteCalls>>
    /\ UNCHANGED <<pf, sl, tt>>

(***************************************************************************)
(* The gateway's ephemeral-container calls.                                *)
(***************************************************************************)

TaskStates == <<"absent", "waiting", "running", "terminated">>
StateRank(st) == CHOOSE k \in 1..Len(TaskStates) : TaskStates[k] = st

\* a cycle that gives up when a create call fails
AfterCreateAborting(purpose, failed) ==
    IF failed THEN [stage |-> "ret", step |-> ""]
    ELSE IF purpose = "tcpdump" THEN [stage |-> "tcpdump", step |-> "fetch"]
    ELSE [stage |-> purpose, step |-> "wait"]

\* a cycle in which a failed packet-capture task also ends the endpoint sweep
AfterCreateEndingSweep(purpose, failed) ==
    IF purpose = "raise"
    THEN IF failed THEN [stage |-> "tcpdump", step |-> "create"]
                   ELSE [stage |-> "raise", step |-> "wait"]
    ELSE IF purpose = "tcpdump"
    THEN IF failed THEN [stage |-> "join", step |-> ""]
                   ELSE [stage |-> "tcpdump", step |-> "fetch"]
    ELSE IF failed THEN [stage |-> "ret", step |-> ""]
                   ELSE [stage |-> "reset", step |-> "wait"]

\* where CaptureSnapshot continues when the create call of a stage returns
AfterCreate(purpose, failed) ==
    IF purpose = "raise"
    THEN IF failed THEN [stage |-> "tcpdump", step |-> "create"]
                   ELSE [stage |-> "raise", step |-> "wait"]
    ELSE IF purpose = "tcpdump"
    THEN IF failed THEN [stage |-> "sweep", step |-> "fetch"]
                   ELSE [stage |-> "tcpdump", step |-> "fetch"]
    ELSE IF failed THEN [stage |-> "ret", step |-> ""]
                   ELSE [stage |-> "reset", step |-> "wait"]

\* where CaptureSnapshot continues after the DeletePod of a stage
AfterDelete(purpose) ==
    IF purpose = "raise" THEN [stage |-> "tcpdump", step |-> "create"]
    ELSE IF purpose = "tcpdump" THEN [stage |-> "sweep", step |-> "fetch"]
    ELSE [stage |-> "ret", step |-> ""]

\* the create call returns to CaptureSnapshot
EphReturn(failed, tid) ==
    /\ eph' = [NoEph EXCEPT !.pc = "none"]
    /\ cpc' = AfterCreate(eph.purpose, failed)
    /\ ephName' = IF failed THEN 0 ELSE tid
    /\ verb' = IF eph.purpose = "raise" /\ ~failed
               THEN [verb EXCEPT ![snap.PodName].raised = TRUE]
               ELSE verb

\* CreatePrivilegedDebugPod for the raise ("debug"/"trace") or the reset ("info"):
\* the command is never empty, so the call enters RunEphemeralInTargetNetNS
CreatePrivilegedDebugPod(purpose) ==
    /\ At(purpose, "create")
    /\ eph.pc = "none"
    /\ purpose \in {"raise", "reset"}
    /\ eph' = [pc |-> "get", kind |-> "netns", purpose |-> purpose,
               container |-> snap.ContainerName, polls |-> 0, tid |-> 0,
               state |-> "absent"]
    /\ Goto(purpose, "creating")
    /\ verb' = IF purpose = "reset"
               THEN [verb EXCEPT ![snap.PodName].raised = FALSE,
                                 ![snap.PodName].resets = verb[snap.PodName].resets + 1]
               ELSE verb
    /\ Track
    /\ UNCHANGED <<cfg, loopVars, snap, tempDir, hasTemp, worker, logResults, joined,
                   epIdx, fetch, archive, snapErr, tasks, ephName>>
    /\ UNCHANGED <<logFailed, remoteCalls>>
    /\ UNCHANGED <<pf, sl, tt>>

\* argument checks, then Pods().Get of the target pod
EphGetPod ==
    /\ eph.pc = "get"
    /\ IF snap.PodName = "" \/ eph.container = ""
       THEN /\ EphReturn(TRUE, 0)
       ELSE \E ok \in BOOLEAN :
              IF ok
              THEN /\ eph' = [eph EXCEPT !.pc = "update"]
                   /\ UNCHANGED <<cpc, ephName, verb>>
              ELSE EphReturn(TRUE, 0)
    /\ Track
    /\ UNCHANGED <<cfg, loopVars, snap, tempDir, hasTemp, worker, logResults, joined,
                   epIdx, fetch, archive, snapErr, tasks>>
    /\ UNCHANGED <<logFailed, remoteCalls>>
    /\ UNCHANGED <<pf, sl, tt>>

\* UpdateEphemeralContainers: once accepted, the ephemeral task exists
EphUpdate ==
    /\ eph.pc = "update"
    /\ \E ok \in BOOLEAN :
         IF ok
         THEN /\ tasks' = Append(tasks, [purpose |-> eph.purpose, deletes |-> 0,
                                         result |-> "pending", observed |-> ""])
              /\ eph' = [eph EXCEPT !.pc = "poll", !.tid = Len(tasks) + 1]
              /\ UNCHANGED <<cpc, ephName, verb>>
         ELSE /\ EphReturn(TRUE, 0)
              /\ UNCHANGED tasks
    /\ Track
    /\ UNCHANGED <<cfg, loopVars, snap, tempDir, hasTemp, worker, logResults, joined,
                   epIdx, fetch, archive, snapErr>>
    /\ UNCHANGED <<logFailed, remoteCalls>>
    /\ UNCHANGED <<pf, sl, tt>>

\* time.Now().After(deadline), with one tick per sleep of the poll loop
DeadlinePassed(polls) == polls > MaxPolls

\* a wait loop that takes a running container for a finished one
FinishedOrRunning(st) == st \in {"running", "terminated"}

\* if st.Terminated != nil { return nil }, reached only when st is neither
\* missing nor Running
Finished(st) == st = "terminated"

\* one iteration of the wait loop: the deadline check, Pods().Get, the state
EphPoll ==
    /\ eph.pc = "poll"
    /\ IF DeadlinePassed(eph.polls)
       THEN /\ tasks' = [tasks EXCEPT ![eph.tid].result = "deadline"]
            /\ EphReturn(TRUE, 0)
       ELSE \E getErr \in BOOLEAN, k \in StateRank(eph.state)..Len(TaskStates) :
              IF ~getErr /\ Finished(TaskStates[k])
              THEN /\ tasks' = [tasks EXCEPT ![eph.tid].result = "terminated",
                                             ![eph.tid].observed = TaskStates[k]]
                   /\ EphReturn(FALSE, eph.tid)
              ELSE /\ eph' = [eph EXCEPT !.polls = eph.polls + 1,
                                         !.state = IF getErr THEN eph.state ELSE TaskStates[k]]
                   /\ UNCHANGED <<tasks, cpc, ephName, verb>>
    /\ Track
    /\ UNCHANGED <<cfg, loopVars, snap, tempDir, hasTemp, worker, logResults, joined,
                   epIdx, fetch, archive, snapErr>>
    /\ UNCHANGED <<logFailed, remoteCalls>>
    /\ UNCHANGED <<pf, sl, tt>>

\* WaitForPodRunning(ephName, 30s): watch error, timeout, or the pod is Running
WaitForPodRunning(purpose) ==
    /\ At(purpose, "wait")
    /\ \E r \in {"watch_error", "timeout", "running"} :
         cpc' = IF r = "running" THEN [stage |-> purpose, step |-> "exec"]
                ELSE [stage |-> purpose, step |-> "delete"]
    /\ Track
    /\ UNCHANGED <<cfg, loopVars, snap, tempDir, hasTemp, worker, logResults, joined,
                   epIdx, fetch, archive, snapErr, kubeVars, verb>>
    /\ UNCHANGED <<logFailed, remoteCalls>>
    /\ UNCHANGED <<pf, sl, tt>>

\* ExecuteCommand(ephName, "debug", nsenter ... curl): the result is only logged
ExecuteCurl(purpose) ==
    /\ At(purpose, "exec")
    /\ \E ok \in BOOLEAN : Goto(purpose, "delete")
    /\ Track
    /\ UNCHANGED <<cfg, loopVars, snap, tempDir, hasTemp, worker, logResults, joined,
                   epIdx, fetch, archive, snapErr, kubeVars, verb>>
    /\ UNCHANGED <<logFailed, remoteCalls>>
    /\ UNCHANGED <<pf, sl, tt>>

\* _ = kubeService.DeletePod(name): one delete request for the returned name
DeletePod(purpose) ==
    /\ At(purpose, "delete")
    /\ tasks' = [tasks EXCEPT ![ephName].deletes = tasks[ephName].deletes + 1]
    /\ cpc' = AfterDelete(purpose)
    /\ Track
    /\ UNCHANGED <<cfg, loopVars, snap, tempDir, hasTemp, worker, logResults, joined,
                   epIdx, fetch, archive, snapErr, eph, ephName, verb>>
    /\ UNCHANGED <<logFailed, remoteCalls>>
    /\ UNCHANGED <<pf, sl, tt>>

(***************************************************************************)
(* Packet capture.                                                         *)
(***************************************************************************)

\* ContainerExists: a failed ListContainers counts as "does not exist"
ContainerExists(r, c) == ~r.err /\ c \in Range(r.list)

\* the first candidate that exists, each asked with its own ListContainers call
RECURSIVE FirstExisting(_, _)
FirstExisting(cands, results) ==
    IF cands = <<>> THEN ""
    ELSE IF ContainerExists(Head(results), Head(cands)) THEN Head(cands)
    ELSE FirstExisting(Tail(cands), Tail(results))

\* the capture target: a candidate, else containers[0]; "" stands for the error
TcpdumpTarget(results, containers) ==
    LET c == FirstExisting(TcpdumpCandidates, results)
    IN IF c # "" THEN [err |-> FALSE, container |-> c]
       ELSE IF Len(containers) > 0 THEN [err |-> FALSE, container |-> containers[1]]
       ELSE [err |-> TRUE, container |-> ""]

\* if config.TcpdumpEnabled: CreateConcurrentTcpdumpCapturePod up to the call of
\* StartEphemeralTcpdumpToLogs
CreateConcurrentTcpdumpCapturePod ==
    /\ At("tcpdump", "create")
    /\ eph.pc = "none"
    /\ IF ~snap.TcpdumpEnabled
       THEN /\ Goto("sweep", "fetch")
            /\ UNCHANGED eph
       ELSE \E results \in [1..Len(TcpdumpCandidates) -> ListResults] :
              LET t == TcpdumpTarget(results,
                                     <<snap.ContainerName, "envoy-sidecar", "consul-dataplane">>)
              IN IF t.err
                 THEN /\ Goto("sweep", "fetch")
                      /\ UNCHANGED eph
                 ELSE /\ eph' = [pc |-> "get", kind |-> "tcpdump", purpose |-> "tcpdump",
                                 container |-> t.container, polls |-> 0, tid |-> 0,
                                 state |-> "absent"]
                      /\ Goto("tcpdump", "creating")
    /\ Track
    /\ UNCHANGED <<cfg, loopVars, snap, tempDir, hasTemp, worker, logResults, joined,
                   epIdx, fetch, archive, snapErr, tasks, ephName, verb>>
    /\ UNCHANGED <<logFailed, remoteCalls>>
    /\ UNCHANGED <<pf, sl, tt>>

\* Sleep(duration+5s), ExecuteCommandWithStderr(tar -cf - /captures), the untar
\* into the working directory
FetchPcapFiles ==
    /\ At("tcpdump", "fetch")
    /\ \E r \in {"exec_error", "no_file", "pcap"} :
         tempDir' = IF r = "pcap"
                    THEN tempDir \cup {File("pcap", "capture", SomePayload)}
                    ELSE tempDir
    /\ Goto("tcpdump", "delete")
    /\ Track
    /\ UNCHANGED <<cfg, loopVars, snap, hasTemp, worker, logResults, joined,
                   epIdx, fetch, archive, snapErr, kubeVars, verb>>
    /\ UNCHANGED <<logFailed, remoteCalls>>
    /\ UNCHANGED <<pf, sl, tt>>

(***************************************************************************)
(* Endpoint sweep.                                                         *)
(***************************************************************************)

\* what one ExecuteCommand of the wget can give: an error, or stdout
ExecResults ==
    { [err |-> TRUE, data |-> EmptyPayload] } \cup { [err |-> FALSE, data |-> d] : d \in Payloads }

\* a retry loop that takes any error-free attempt, whatever its output
AttemptSucceedsOnNilError(err, data) == ~err

\* if err == nil && outputBuffer.Len() > 0 { return outputBuffer.Bytes(), nil }
AttemptSucceeds(err, data) == ~err /\ Len(data) > 0

\* exec.Stream takes no context and no timeout: the call ends when the remote
\* side answers or the connection breaks, and otherwise does not end
ExecResponds == BOOLEAN

\* one pass of fetchEnvoyEndpoint's retry loop; the last failed pass returns the
\* error; a pass whose ExecuteCommand gets no response stays in the call
FetchAttempt ==
    /\ At("sweep", "fetch")
    /\ epIdx <= Len(EffectiveEndpoints(snap))
    /\ ~fetch.done
    /\ fetch.i < maxRetries
    /\ \E responds \in ExecResponds :
         cpc' = IF responds THEN cpc ELSE [stage |-> "sweep", step |-> "exec_blocked"]
    /\ \E r \in ExecResults, fallback \in BOOLEAN :
         fetch' = IF cpc'.step = "exec_blocked" THEN fetch
                  ELSE IF AttemptSucceeds(r.err, r.data)
                  THEN [fetch EXCEPT !.done = TRUE, !.ok = TRUE, !.data = r.data,
                                     !.attempts = fetch.i + 1]
                  ELSE IF fetch.i + 1 < maxRetries
                  THEN [fetch EXCEPT !.i = fetch.i + 1, !.attempts = fetch.i + 1]
                  ELSE [fetch EXCEPT !.i = fetch.i + 1, !.attempts = fetch.i + 1,
                                     !.done = TRUE, !.ok = FALSE, !.data = EmptyPayload,
                                     !.errEndpoint = EffectiveEndpoints(snap)[epIdx],
                                     !.errRetries = maxRetries,
                                     !.execPathWorks = fallback]
    /\ UNCHANGED <<cfg, loopVars, snap, tempDir, hasTemp, worker, logResults, joined,
                   epIdx, archive, snapErr, kubeVars, verb, trace>>
    /\ UNCHANGED <<logFailed, remoteCalls>>
    /\ UNCHANGED <<pf, sl, tt>>

\* endpoint[1:]
EndpointStem(e) ==
    CASE e = "/stats" -> "stats"
      [] e = "/config_dump" -> "config_dump"
      [] e = "/listeners" -> "listeners"
      [] e = "/clusters" -> "clusters"
      [] e = "/certs" -> "certs"

\* a sweep without the two "continue" guards
StoresEndpointAlways(ok, data) == TRUE

\* the two "continue" guards before WriteFile of <endpoint>.json
StoresEndpoint(ok, data) == ok /\ Len(data) # 0

\* where CaptureSnapshot continues after an endpoint has been handled
AfterEndpoint(idx, n) ==
    IF idx < n THEN [stage |-> "sweep", step |-> "fetch"] ELSE [stage |-> "join", step |-> ""]

\* the body of the range over config.Endpoints, after the fetch returned
StoreEndpoint ==
    /\ At("sweep", "fetch")
    /\ fetch.done
    /\ \E w \in WriteFileOutcomes :
         tempDir' = IF StoresEndpoint(fetch.ok, fetch.data)
                    THEN WriteFile(tempDir, "json",
                                   EndpointStem(EffectiveEndpoints(snap)[epIdx]), fetch.data, w)
                    ELSE tempDir
    /\ cpc' = AfterEndpoint(epIdx, Len(EffectiveEndpoints(snap)))
    /\ epIdx' = epIdx + 1
    /\ fetch' = NoFetch
    /\ Track
    /\ UNCHANGED <<cfg, loopVars, snap, hasTemp, worker, logResults, joined,
                   archive, snapErr, kubeVars, verb>>
    /\ UNCHANGED <<logFailed, remoteCalls>>
    /\ UNCHANGED <<pf, sl, tt>>

(***************************************************************************)
(* Join, archive, return.                                                  *)
(***************************************************************************)

\* a join that waits for the extra containers only
JoinCountExtraOnly(c) == Len(c.ExtraLogs)

\* for i := 0; i < cap(logResults); i++
JoinCount(c) == LogResultsCap(c)

\* <-logResults
JoinRecv ==
    /\ At("join", "")
    /\ joined < JoinCount(snap)
    /\ logResults > 0
    /\ logResults' = logResults - 1
    /\ joined' = joined + 1
    /\ UNCHANGED <<cfg, loopVars, cpc, snap, tempDir, hasTemp, worker, epIdx, fetch,
                   archive, snapErr, kubeVars, verb, trace>>
    /\ UNCHANGED <<logFailed, remoteCalls>>
    /\ UNCHANGED <<pf, sl, tt>>

\* a cycle that resets the verbosity straight after the join
AfterJoinSkipsArchive == [stage |-> "reset", step |-> "create"]

\* the stage that follows the join loop
AfterJoin == [stage |-> "archive", step |-> ""]

JoinDone ==
    /\ At("join", "")
    /\ joined >= JoinCount(snap)
    /\ cpc' = AfterJoin
    /\ Track
    /\ UNCHANGED <<cfg, loopVars, snap, tempDir, hasTemp, worker, logResults, joined,
                   epIdx, fetch, archive, snapErr, kubeVars, verb>>
    /\ UNCHANGED <<logFailed, remoteCalls>>
    /\ UNCHANGED <<pf, sl, tt>>

\* what createTarGz can meet: os.Create fails, the walk fails part-way, the
\* deferred Close calls fail, or nothing fails
TarOutcomes == {"create_fail", "walk_fail", "close_fail", "ok"}

\* createTarGz's return value: the deferred Close errors are dropped
TarError(outcome) == outcome \in {"create_fail", "walk_fail"}

\* after createTarGz: return the error, or go on to the reset unless skipped
AfterArchive(failed, skipReset) ==
    IF failed THEN [stage |-> "ret", step |-> ""]
    ELSE IF ~skipReset THEN [stage |-> "reset", step |-> "create"]
    ELSE [stage |-> "ret", step |-> ""]

\* the file names of the model in lexical order, the order in which
\* filepath.Walk visits the entries of a directory
LexicalOrder ==
    << <<"app", "-logs.txt">>, <<"capture", ".pcap">>, <<"certs", ".json">>,
       <<"clusters", ".json">>, <<"config_dump", ".json">>,
       <<"consul-dataplane", "-logs.txt">>, <<"envoy-sidecar", "-logs.txt">>,
       <<"listeners", ".json">>, <<"stats", ".json">> >>

\* filepath.Walk(sourceDir, ...): the root directory first, then its files in
\* lexical order; path is the path relative to sourceDir
Walk(dir) ==
    LET names == SelectSeq(LexicalOrder, LAMBDA n : \E f \in dir : FileName(f) = n)
        fileOf(n) == CHOOSE f \in dir : FileName(f) = n
    IN <<[path |-> <<>>, isDir |-> TRUE, data |-> EmptyPayload]>>
       \o [k \in 1..Len(names) |->
             [path |-> names[k], isDir |-> FALSE, data |-> fileOf(names[k]).data]]

\* a walk function that makes an entry for directories too
SkipsNothing(node) == FALSE

\* if fi.IsDir() { return nil }
SkipsNode(node) == node.isDir

\* an archive whose entries carry the header only
EntryBodyHeaderOnly(data) == EmptyPayload

\* io.Copy(tarWriter, f): the entry's body is the file's content
EntryBody(data) == data

\* the entries the walk function writes: header.Name = relPath, then the body
TarEntries(nodes) ==
    LET kept == SelectSeq(nodes, LAMBDA node : ~SkipsNode(node))
    IN [k \in 1..Len(kept) |->
          [Name |-> kept[k].path, IsDir |-> kept[k].isDir,
           Size |-> Len(kept[k].data), Body |-> EntryBody(kept[k].data)]]

\* extraction of an archive into an empty directory: a regular file per
\* entry, at the entry's name, holding the entry's body
ExtractTarGz(entries) ==
    { [path |-> entries[k].Name, data |-> entries[k].Body] :
        k \in { j \in 1..Len(entries) : ~entries[j].IsDir } }

createTarGz ==
    /\ At("archive", "")
    /\ \E outcome \in TarOutcomes :
         /\ archive' = [state |-> CASE outcome = "create_fail" -> archive.state
                                         [] outcome = "ok" -> "complete"
                                         [] OTHER -> "partial",
                        entries |-> IF outcome = "ok" THEN TarEntries(Walk(tempDir))
                                    ELSE <<>>,
                        err |-> TarError(outcome)]
         /\ snapErr' = IF TarError(outcome) THEN "archive" ELSE ""
         /\ cpc' = AfterArchive(TarError(outcome), snap.SkipLogLevelReset)
    /\ Track
    /\ UNCHANGED <<cfg, loopVars, snap, tempDir, hasTemp, worker, logResults, joined,
                   epIdx, fetch, kubeVars, verb>>
    /\ UNCHANGED <<logFailed, remoteCalls>>
    /\ UNCHANGED <<pf, sl, tt>>

\* a cleanup that is skipped when the call returns an error
RemovesTempDirOnSuccess(err) == err = ""

\* defer os.RemoveAll(tempDir): runs on every return that follows MkdirTemp
RemovesTempDir(err) == TRUE

\* CaptureSnapshot returns: the deferred RemoveAll, then the caller's loop goes on
CaptureSnapshotReturn ==
    /\ At("ret", "")
    /\ IF hasTemp /\ RemovesTempDir(snapErr)
       THEN tempDir' = {} /\ hasTemp' = FALSE
       ELSE UNCHANGED <<tempDir, hasTemp>>
    /\ Goto("idle", "")
    /\ podIdx' = NextTarget(podIdx, Len(podsToCapture), snapErr # "")
    /\ \E d \in CycleSeconds : elapsed' = IF ClockStarted(started) THEN elapsed + d ELSE elapsed
    /\ UNCHANGED <<cfg, lpc, podsToCapture, captures, started, mkdirFails, sleeps,
                   snap, worker, logResults, joined, epIdx, fetch, archive, snapErr,
                   kubeVars, verb, trace>>
    /\ UNCHANGED <<logFailed, remoteCalls>>
    /\ UNCHANGED <<pf, sl, tt>>

(***************************************************************************)
(* PortForwardGET: an HTTP GET through a port-forward tunnel to a pod.      *)
(***************************************************************************)

\* the variables of the capture command, which PortForwardGET leaves alone
captureVars == <<cfg, loopVars, cycleVars, kubeVars, verb, logFailed, remoteCalls>>

\* pod ports and response statuses tried
PodPorts == {19000, 8080}
HttpStatuses == {200, 399, 400, 503}

\* a result channel without a buffer
DoneCapUnbuffered(fn) == 0

\* done := make(chan error, 1), in streamLogsWithTimeout and in PortForwardGET
DoneCap(fn) == 1

\* return paths that leave the forwarder running when the readiness timer fires
ClosesStopChExceptTimeout(err) == err \notin {"roundtripper", "ctor", "timeout"}

\* the return paths that close stopCh: all those after the forwarder was
\* started (the two before it have no forwarder to stop)
ClosesStopCh(err) == err \notin {"roundtripper", "ctor"}

\* PortForwardGET returns: the error, or the body with a nil error
PfReturn(err, body) ==
    [pf EXCEPT !.pc = "returned", !.err = err, !.body = body,
               !.stops = pf.stops + IF ClosesStopCh(err) THEN 1 ELSE 0]

\* the call and the request it builds for the pod's portforward subresource
PortForwardGET ==
    /\ pf.pc = "idle"
    /\ \E pod \in AllPods, port \in PodPorts, path \in Range(DefaultEndpoints) :
         pf' = [NoPf EXCEPT !.pc = "roundtripper", !.pod = pod, !.podPort = port,
                            !.path = path]
    /\ UNCHANGED <<captureVars, sl, tt>>

\* spdy.RoundTripperFor(k.restConfig)
PfRoundTripperFor ==
    /\ pf.pc = "roundtripper"
    /\ \E ok \in BOOLEAN :
         pf' = IF ok THEN [pf EXCEPT !.pc = "ctor"]
               ELSE PfReturn("roundtripper", EmptyPayload)
    /\ UNCHANGED <<captureVars, sl, tt>>

\* portforward.NewOnAddresses, then go func() { done <- fw.ForwardPorts() }()
PfNewOnAddresses ==
    /\ pf.pc = "ctor"
    /\ \E ok \in BOOLEAN :
         pf' = IF ok THEN [pf EXCEPT !.pc = "select", !.fw = "running"]
               ELSE PfReturn("ctor", EmptyPayload)
    /\ UNCHANGED <<captureVars, sl, tt>>

\* the forwarder has its listener up: it closes readyCh
ForwardPortsReady ==
    /\ pf.fw = "running"
    /\ pf' = [pf EXCEPT !.fw = "forwarding", !.ready = TRUE]
    /\ UNCHANGED <<captureVars, sl, tt>>

\* ForwardPorts returns, with an error or without one; the goroutine sends
\* the result on done: into the channel's buffer, or to a caller that is
\* waiting in the select
ForwardPortsReturn ==
    /\ pf.fw \in {"running", "forwarding"}
    /\ pf.pc = "select" \/ Len(pf.done) < DoneCap("PortForwardGET")
    /\ \E e \in {"nil", "lost"} :
         pf' = [pf EXCEPT !.fw = "exited", !.done = <<e>>]
    /\ UNCHANGED <<captureVars, sl, tt>>

\* the cases of the select that can be taken: a closed readyCh, a result on
\* done, and the 12 s timer when neither came in time
SelectCases ==
    (IF pf.ready THEN {"ready"} ELSE {})
    \cup (IF pf.done # <<>> THEN {"done"} ELSE {})
    \cup (IF ~pf.ready /\ pf.done = <<>> THEN {"timeout"} ELSE {})

\* a call that goes on to the request when the tunnel is not ready in time
AfterSelectIgnoringTimeout(case) == IF case \in {"ready", "timeout"} THEN "get" ELSE "return"

\* only the ready case falls through to the request
AfterSelect(case) == IF case = "ready" THEN "get" ELSE "return"

\* select { case <-readyCh: case err := <-done: case <-time.After(12s): }
PfSelect ==
    /\ pf.pc = "select"
    /\ \E case \in SelectCases :
         IF AfterSelect(case) = "get"
         THEN pf' = [pf EXCEPT !.pc = "get", !.sel = case]
         ELSE pf' = [PfReturn(IF case = "done" THEN "early_exit" ELSE "timeout", EmptyPayload)
                       EXCEPT !.sel = case,
                              !.done = IF case = "done" THEN <<>> ELSE pf.done]
    /\ UNCHANGED <<captureVars, sl, tt>>

\* http.Get(url): an error closes stopCh and returns
PfHttpGet ==
    /\ pf.pc = "get"
    /\ \E ok \in BOOLEAN, st \in HttpStatuses, b \in Payloads :
         pf' = IF ok
               THEN [pf EXCEPT !.pc = "read", !.gets = pf.gets + 1, !.status = st,
                               !.response = b]
               ELSE [PfReturn("get", EmptyPayload)
                       EXCEPT !.gets = pf.gets + 1]
    /\ UNCHANGED <<captureVars, sl, tt>>

\* if resp.StatusCode >= 400 { return nil, error }
ReturnsBody(status) == status < 400

\* io.ReadAll(resp.Body), close(stopCh), the status check
PfReadAll ==
    /\ pf.pc = "read"
    /\ \E ok \in BOOLEAN :
         pf' = IF ~ok THEN PfReturn("read", EmptyPayload)
               ELSE IF ReturnsBody(pf.status) THEN PfReturn("", pf.response)
               ELSE PfReturn("status", EmptyPayload)
    /\ UNCHANGED <<captureVars, sl, tt>>

(***************************************************************************)
(* CreateConcurrentTcpdumpCapturePod on its own: any pod, any caller list.  *)
(***************************************************************************)

\* the variables the target selection leaves alone
notTcpdumpVars == <<cfg, loopVars, cycleVars, kubeVars, verb, logFailed, remoteCalls, pf, sl>>

\* the containers a target pod can have
TcpdumpPods ==
    { <<"app">>, <<"app", "consul-dataplane">>, <<"app", "envoy-sidecar">>,
      <<"envoy-sidecar", "consul-dataplane">>, <<"mesh-gateway">>, <<"api-gateway">>,
      <<"api-gateway", "mesh-gateway">>, <<"app", "api-gateway", "envoy-sidecar">> }

\* the container lists a caller can pass
CallerContainers ==
    { <<>>, <<"app">>, <<"app", "envoy-sidecar", "consul-dataplane">>,
      <<"", "envoy-sidecar", "consul-dataplane">> }

\* the call: the pod, the caller's list, and for each candidate whether its
\* ContainerExists lookup (a ListContainers call) fails
TcpdumpCall ==
    /\ tt.pc = "idle"
    /\ \E pod \in TcpdumpPods, containers \in CallerContainers,
          fails \in [1..Len(TcpdumpCandidates) -> BOOLEAN] :
         tt' = [NoTt EXCEPT !.pc = "called", !.pod = pod, !.containers = containers,
                            !.results = [i \in 1..Len(TcpdumpCandidates) |->
                                           IF fails[i] THEN [err |-> TRUE, list |-> <<>>]
                                           ELSE [err |-> FALSE, list |-> pod]]]
    /\ UNCHANGED notTcpdumpVars

\* the candidate loop and the fallback; StartEphemeralTcpdumpToLogs is called
\* unless the error is returned
TcpdumpChoose ==
    /\ tt.pc = "called"
    /\ LET t == TcpdumpTarget(tt.results, tt.containers)
       IN tt' = [tt EXCEPT !.pc = "chosen", !.err = t.err, !.target = t.container,
                           !.started = ~t.err]
    /\ UNCHANGED notTcpdumpVars

(***************************************************************************)
(* One log worker in detail: streamLogsWithTimeout with its log-fetch       *)
(* goroutine, then the worker's WriteFile.  The select is reached at once   *)
(* and the deadline is at least 10 s away, so the caller is parked in the   *)
(* select when the first of its two events arrives, and that event decides  *)
(* the case.                                                                *)
(***************************************************************************)

\* the variables the log worker machine leaves alone
notLogVars == <<cfg, loopVars, cycleVars, kubeVars, verb, logFailed, remoteCalls, pf, tt>>

\* what logsBuf.Bytes() can give while the fetch goroutine may be inside
\* logsBuf.Write (an unsynchronized read of a bytes.Buffer): the chunks
\* written so far, or those plus a chunk whose length is set and whose
\* content is not yet copied
RacyBytes(buf) == {buf, Append(buf, 0)}

\* streamLogsWithTimeout(kubeService, pod, container, Duration+10s) is called:
\* context.WithTimeout, the done channel, go func() { done <- FetchContainerLogs }
streamLogsWithTimeout ==
    /\ sl.pc = "idle"
    /\ \E c \in {"app", "consul-dataplane", "envoy-sidecar"} :
         sl' = [NoSl EXCEPT !.pc = "select", !.container = c, !.fetch = "streaming"]
    /\ UNCHANGED notLogVars

\* io.Copy(out, stream) in FetchContainerLogs writes a chunk into logsBuf
LogChunk ==
    /\ sl.fetch = "streaming"
    /\ Len(sl.buf) < MaxChunks
    /\ sl' = [sl EXCEPT !.buf = Append(sl.buf, 1)]
    /\ UNCHANGED notLogVars

\* FetchContainerLogs returns (the stream could not be opened, ended, failed
\* or was cancelled) and the goroutine sends on done.  A caller parked in the
\* select takes the value: return logsBuf.Bytes(), err, then the deferred cancel
FetchContainerLogsReturn ==
    /\ sl.fetch = "streaming"
    /\ sl.pc = "select" \/ Len(sl.done) < DoneCap("streamLogsWithTimeout")
    /\ \E e \in IF sl.ctx = "live" THEN BOOLEAN ELSE {TRUE} :
         sl' = IF sl.pc = "select"
               THEN [sl EXCEPT !.fetch = "exited", !.pc = "returned", !.sel = "done",
                               !.writer = FALSE, !.collected = sl.buf, !.bytes = sl.buf,
                               !.err = e, !.ctx = "cancelled"]
               ELSE [sl EXCEPT !.fetch = "exited", !.done = Append(sl.done, e)]
    /\ UNCHANGED notLogVars

\* the deadline passes with the stream still open: case <-ctx.Done():
\* return logsBuf.Bytes(), nil, while the fetch goroutine still owns the buffer
LogDeadline ==
    /\ sl.pc = "select"
    /\ sl.ctx = "live"
    /\ \E b \in RacyBytes(sl.buf) :
         sl' = [sl EXCEPT !.pc = "returned", !.sel = "deadline", !.ctx = "expired",
                          !.writer = (sl.fetch = "streaming"), !.collected = sl.buf,
                          !.bytes = b, !.err = FALSE]
    /\ UNCHANGED notLogVars

\* the worker after the call: log the failure, or WriteFile(<container>-logs.txt)
LogWorkerWrite ==
    /\ sl.pc = "returned"
    /\ \E w \in WriteFileOutcomes :
         sl' = IF ~WritesLogs(sl.err)
               THEN [sl EXCEPT !.pc = "signalled", !.logged = TRUE]
               ELSE [sl EXCEPT !.pc = "signalled", !.wrote = w,
                               !.file = CASE w = "open_fail" -> <<"none">>
                                          [] w = "write_fail" -> <<"file", EmptyPayload>>
                                          [] OTHER -> <<"file", sl.bytes>>]
    /\ UNCHANGED notLogVars

Next ==
    \/ CheckContainer
    \/ NewClient
    \/ ListPods
    \/ CheckInterval
    \/ LoopTop
    \/ TargetPod
    \/ EndIteration
    \/ SnapStart
    \/ \E i \in 1..2 : StreamLogs(i)
    \/ \E i \in 1..2 : SignalLogResult(i)
    \/ \E p \in {"raise", "reset"} : CreatePrivilegedDebugPod(p)
    \/ EphGetPod
    \/ EphUpdate
    \/ EphPoll
    \/ \E p \in {"raise", "reset"} : WaitForPodRunning(p)
    \/ \E p \in {"raise", "reset"} : ExecuteCurl(p)
    \/ \E p \in {"raise", "reset", "tcpdump"} : DeletePod(p)
    \/ CreateConcurrentTcpdumpCapturePod
    \/ FetchPcapFiles
    \/ FetchAttempt
    \/ StoreEndpoint
    \/ JoinRecv
    \/ JoinDone
    \/ createTarGz
    \/ CaptureSnapshotReturn

Spec == Init /\ [][Next]_vars

\* the Go scheduler runs every goroutine that can take a step
FairSpec == Spec /\ WF_vars(Next)

\* a caller of the gateway's PortForwardGET, for any pod, port and path
PfInit == Init /\ cfg = Flags("p1", "app", <<"/stats">>, 5, 10, 0, FALSE, FALSE)

PfNext ==
    \/ PortForwardGET
    \/ PfRoundTripperFor
    \/ PfNewOnAddresses
    \/ ForwardPortsReady
    \/ ForwardPortsReturn
    \/ PfSelect
    \/ PfHttpGet
    \/ PfReadAll

PfSpec == PfInit /\ [][PfNext]_vars

\* one log worker of a cycle, for any container
LogNext ==
    \/ streamLogsWithTimeout
    \/ LogChunk
    \/ FetchContainerLogsReturn
    \/ LogDeadline
    \/ LogWorkerWrite

LogSpec == PfInit /\ [][LogNext]_vars

\* the target selection of the packet capture, for any pod and caller
TcpdumpNext == TcpdumpCall \/ TcpdumpChoose

TcpdumpSpec == PfInit /\ [][TcpdumpNext]_vars

\* the two calls that leave a goroutine behind, side by side
BgNext == PfNext \/ LogNext

BgSpec == PfInit /\ [][BgNext]_vars

(***************************************************************************)
(* Properties.                                                             *)
(***************************************************************************)

\* a call of CaptureSnapshot has returned and the loop has not yet begun the next
SnapshotReturned == At("idle", "") /\ snap.PodName # ""

\* the call of CaptureSnapshot in progress has got past its setup
InCycle == cpc.stage \notin {"idle", "start"}

\* the stages the call in progress, or the last call, has entered
Entered == Range(trace)

\* C1: once CaptureSnapshot has returned, every ephemeral task the cycle
\* created (raise, reset, packet capture) has had exactly one delete call.
C1_EveryTaskDeletedOnce ==
    SnapshotReturned => \A t \in DOMAIN tasks : tasks[t].deletes = 1

\* C2: a task whose run-to-completion call returned the deadline error,
\* because the task was not seen Terminated in time, has had exactly one
\* delete call once the cycle is over.
C2_DeadlineStillDeletes ==
    SnapshotReturned =>
        \A t \in DOMAIN tasks : tasks[t].result = "deadline" => tasks[t].deletes = 1

C4_RepeatCyclesSleepsResets ==
    (lpc = "done" /\ cfg.repeat > 0 /\ podsToCapture # <<>>) =>
        /\ captures = cfg.repeat
        /\ sleeps = cfg.repeat - 1
        /\ \A p \in Range(podsToCapture) :
               (verb[p].lastCycle = cfg.repeat - 1 /\ snap.PodName = p /\ "archive" \in Entered)
                   => verb[p].resets = 1

\* C5: when the run ends, no target whose verbosity a cycle raised is left
\* without a reset attempt after that raise.
C5_RaiseHasReset ==
    lpc = "done" => \A p \in AllPods : ~verb[p].raised

\* C6: once the archive step of a cycle has begun, every log worker of the
\* cycle has finished and its signal has been received, the packet capture
\* has ended and the endpoint sweep is over, so nothing writes into the
\* working directory any more.
C6_ArchiveAfterAllCollection ==
    (InCycle /\ "archive" \in Entered) =>
        /\ \A i \in DOMAIN worker : worker[i] \in {"none", "done"}
        /\ joined = Len(snap.ExtraLogs) + 1
        /\ logResults = 0
        /\ \A t \in DOMAIN tasks : tasks[t].purpose = "tcpdump" => tasks[t].result # "pending"
        /\ epIdx > Len(EffectiveEndpoints(snap))

\* the archive step begins after two workers wrote their logs and the packet
\* capture ran
C6_Witness ==
    /\ At("archive", "")
    /\ worker = <<"done", "done">>
    /\ \E f \in tempDir : f.kind = "logs"
    /\ \E t \in DOMAIN tasks : tasks[t].purpose = "tcpdump"

\* C7: whenever a cycle is in its reset step, createTarGz has been entered
\* and has returned without error.
C7_ResetAfterArchive ==
    cpc.stage = "reset" =>
        /\ "archive" \in Entered
        /\ archive.state # "none"
        /\ snapErr = ""

\* the reset begins with the archive complete
C7_Witness == At("reset", "create") /\ archive.state = "complete"

\* C8: a step that creates an <endpoint>.json file is taken with a fetch of
\* that endpoint that returned success and a non-empty payload.
C8_JsonOnlyForNonEmptyFetch ==
    [][ \A f \in tempDir' \ tempDir :
            f.kind = "json" =>
                /\ fetch.done /\ fetch.ok /\ Len(fetch.data) > 0
                /\ f.name = EndpointStem(EffectiveEndpoints(snap)[epIdx]) ]_vars

\* the sweep is over and has stored a payload
C8_Witness ==
    /\ At("join", "")
    /\ \E f \in tempDir : f.kind = "json" /\ f.data = SomePayload

\* C9: a fetch whose five first-tier attempts all failed or were empty, at
\* a moment the ephemeral-exec path would deliver the payload, returns that
\* payload with attempts = 6.
C9_FallbackAfterFiveEmpty ==
    (fetch.done /\ fetch.i = maxRetries /\ fetch.execPathWorks) =>
        /\ fetch.ok
        /\ fetch.data = SomePayload
        /\ fetch.attempts = maxRetries + 1

\* C10: a fetch that has returned made at most 5 attempts; on success it
\* returned in the pass that first gave a non-empty output, with that
\* output; on failure it made all 5 and its error names the endpoint and
\* the attempt count.
C10_FetchContract ==
    fetch.done =>
        /\ fetch.attempts \in 1..maxRetries
        /\ fetch.ok => (Len(fetch.data) > 0 /\ fetch.attempts = fetch.i + 1)
        /\ ~fetch.ok =>
               /\ fetch.attempts = maxRetries
               /\ fetch.errEndpoint = EffectiveEndpoints(snap)[epIdx]
               /\ fetch.errRetries = fetch.attempts

\* a fetch returns its error after five attempts
C10_Witness == fetch.done /\ ~fetch.ok /\ fetch.attempts = maxRetries

\* the logs file of slot i is in the working directory
HasLogsFile(i) == \E f \in tempDir : f.kind = "logs" /\ f.name = LogSlots(snap)[i]

\* slot i's container is not also the container of another slot
OwnContainer(i) ==
    \A j \in DOMAIN worker \ {i} : LogSlots(snap)[j] # LogSlots(snap)[i]

\* C11: a log worker that has not finished can always take its step,
\* whatever its siblings are doing or have returned; a container whose
\* stream failed has that failure logged and gets no logs file, while the
\* file of another container is written all the same.
C11_LogStreamsIndependent ==
    \A i \in DOMAIN worker :
        /\ worker[i] = "run" => ENABLED StreamLogs(i)
        /\ i \in logFailed => worker[i] \in {"signal", "done"}
        /\ (i \in logFailed /\ OwnContainer(i)) => ~HasLogsFile(i)
        /\ (HasLogsFile(i) /\ OwnContainer(i))
              => (worker[i] \in {"signal", "done"} /\ i \notin logFailed)

\* the first slot's stream failed and the second slot's logs were written
C11_Witness ==
    /\ 1 \in logFailed /\ ~HasLogsFile(1) /\ OwnContainer(1)
    /\ \E f \in tempDir : f.kind = "logs" /\ f.name = LogSlots(snap)[2] /\ f.data = SomePayload

\* C12 as stated: a cycle that returns an error has had its archive stage
\* fail; no other stage makes it return one.
C12_ErrorOnlyFromArchive ==
    (At("ret", "") /\ snapErr # "") => ("archive" \in Entered /\ archive.err)

\* C12 amended: a cycle returns either at once, with the error of MkdirTemp,
\* or after it went through raise, packet capture, sweep, join and archive
\* whatever failed on the way; in the second case it returns an error
\* exactly when createTarGz returned one.
C12_ErrorIffSetupOrArchive ==
    At("ret", "") =>
        \/ trace = <<"ret">> /\ snapErr = "mkdtemp" /\ ~hasTemp
        \/ /\ hasTemp
           /\ Len(trace) >= 5
           /\ SubSeq(trace, 1, 5) = <<"raise", "tcpdump", "sweep", "join", "archive">>
           /\ snapErr # "" <=> archive.err

\* a cycle returns without error after its raise ran out of time, a log
\* stream failed and the sweep stored nothing
C12_Witness ==
    /\ At("ret", "") /\ snapErr = ""
    /\ \E t \in DOMAIN tasks : tasks[t].purpose = "raise" /\ tasks[t].result = "deadline"
    /\ logFailed # {}
    /\ ~\E f \in tempDir : f.kind = "json"

\* C13: once createTarGz has run, an archive that is not complete means the
\* cycle returns an error.
C13_ArchiveFaultIsError ==
    (InCycle /\ cpc.stage \in {"reset", "ret"} /\ "archive" \in Entered
        /\ archive.state # "complete") => snapErr # ""

\* C14: between calls of CaptureSnapshot no working directory exists, and a
\* call that is about to return with its directory still there has no log
\* worker left running.
C14_WorkDirRemovedAtReturn ==
    /\ cpc.stage \in {"idle", "start"} => (~hasTemp /\ tempDir = {})
    /\ (At("ret", "") /\ hasTemp) => \A i \in DOMAIN worker : worker[i] \in {"none", "done"}

\* a call whose archive failed has returned and its directory is gone
C14_Witness ==
    /\ SnapshotReturned /\ "archive" \in Entered /\ snapErr = "archive"
    /\ ~hasTemp

\* C15: with an interval below 5 or with consul-dataplane as the container,
\* no request is ever sent to the cluster and no cycle runs.
C15_InvalidConfigNoRemoteCall ==
    (cfg.interval < MinInterval \/ cfg.containerName = "consul-dataplane") =>
        (~remoteCalls /\ snap = NoSnap)

\* C16: with no repeat count and a duration of 0 or less, no capture cycle
\* ever runs.
C16_NonPositiveDurationRejected ==
    (cfg.repeat = 0 /\ cfg.duration <= 0) => (snap = NoSnap /\ lpc # "pods")

C18_DurationStopsRepeatRun ==
    (At("start", "") /\ cfg.repeat > 0 /\ cfg.duration > 0) =>
        sleeps * cfg.interval < cfg.duration

\* C19: with packet capture enabled only the first iteration of the loop
\* runs a cycle.
C19_TcpdumpSingleRun ==
    (At("start", "") /\ snap.TcpdumpEnabled) => captures = 0

\* C20: every call of CaptureSnapshot that has begun eventually returns.
C20_CaptureSnapshotReturns ==
    (cpc.stage = "start") ~> (cpc.stage = "ret")

\* C21: in a duration-bounded run (repeat not set, duration > 0) no further
\* cycle begins once the time since the run started has reached duration,
\* whatever happened to the targets of the earlier cycles; the inter-cycle
\* sleeps taken so far are a lower bound of that time
C21_NoCycleAfterDuration ==
    (cfg.repeat = 0 /\ cfg.duration > 0 /\ lpc = "pods")
        => sleeps * cfg.interval < cfg.duration

\* the file a started log worker writes
LogsFile(i) == FileName(File("logs", LogSlots(snap)[i], EmptyPayload))

\* the files the endpoint sweep and the packet-capture retrieval write
SweepAndPcapFiles ==
    { FileName(File("json", EndpointStem(EffectiveEndpoints(snap)[k]), EmptyPayload)) :
        k \in 1..Len(EffectiveEndpoints(snap)) }
    \cup { FileName(File("pcap", "capture", EmptyPayload)) }

\* C22: for every accepted primary container and detected sidecar, no two
\* log workers of a cycle write the same <container>-logs.txt, and no log
\* worker's file is an endpoint file or a packet-capture file
C22_WritersUseDistinctNames ==
    InCycle =>
        \A i \in DOMAIN worker :
            worker[i] # "none" =>
                /\ LogsFile(i) \notin SweepAndPcapFiles
                /\ \A j \in DOMAIN worker :
                     (j # i /\ worker[j] # "none") => LogsFile(j) # LogsFile(i)

\* C23: a soft failure on one target (no sidecar, containers cannot be
\* listed, CaptureSnapshot returns an error) never stops the run: the loop
\* is never left through a fatal exit once it has begun, every target of
\* every cycle is reached, only a target with a detected sidecar is handed
\* to CaptureSnapshot, and a target never handed over has no verbosity change
C23_SoftFailureSkipsTargetOnly ==
    /\ lpc = "fatal" => (captures = 0 /\ \A p \in AllPods : verb[p].seen = -1)
    /\ (lpc = "pods" /\ At("idle", "") /\ podIdx > Len(podsToCapture))
          => \A p \in Range(podsToCapture) : verb[p].seen = captures
    /\ cpc.stage # "idle"
          => (snap.ExtraLogs # <<>> /\ snap.ExtraLogs[1] \in Range(SidecarNames))
    /\ \A p \in AllPods :
          verb[p].lastCycle = -1 => (~verb[p].raised /\ verb[p].resets = 0)

\* the first of two targets was skipped, the call for the second returned an
\* error, and the cycle has come to its end
C23_Witness ==
    /\ lpc = "pods" /\ At("idle", "") /\ podIdx > Len(podsToCapture)
    /\ podsToCapture = MeshPods
    /\ verb[MeshPods[1]].seen = captures /\ verb[MeshPods[1]].lastCycle = -1
    /\ verb[MeshPods[2]].lastCycle = captures
    /\ snapErr # ""

\* the regular files of a directory: relative path and content
DirContents(dir) == { [path |-> FileName(f), data |-> f.data] : f \in dir }

\* an archive has been built over the working directory without an I/O fault
ArchiveBuilt ==
    cpc.stage \in {"reset", "ret"} /\ "archive" \in Entered /\ archive.state = "complete"

WalkRank(n) == CHOOSE k \in 1..Len(LexicalOrder) : LexicalOrder[k] = n

\* C29: the archive has exactly one entry per regular file of the source
\* directory, named by the file's relative path, no entry for a directory,
\* and its entries are in the walk's fixed (lexical) order, so the order is
\* the same on every run over the same directory contents
C29_OneEntryPerFileInWalkOrder ==
    ArchiveBuilt =>
        /\ Len(archive.entries) = Cardinality(tempDir)
        /\ \A f \in tempDir :
             Cardinality({k \in 1..Len(archive.entries) :
                            archive.entries[k].Name = FileName(f)}) = 1
        /\ \A k \in 1..Len(archive.entries) :
             /\ ~archive.entries[k].IsDir
             /\ \E f \in tempDir : archive.entries[k].Name = FileName(f)
        /\ \A j, k \in 1..Len(archive.entries) :
             j < k => WalkRank(archive.entries[j].Name) < WalkRank(archive.entries[k].Name)

\* an archive over three files has been built
C29_Witness ==
    ArchiveBuilt /\ Cardinality(tempDir) = 3 /\ Len(archive.entries) = 3

\* C25: an operation that reaches its deadline ends alone.  A step in which
\* a log worker's stream returns (at its deadline, at its end or with an
\* error) leaves every other worker, the stage in progress, the ephemeral
\* call, the sweep and every other file as they were; a step in which an
\* ephemeral task reaches its timeout leaves the log workers and the files
\* as they were, and the cycle goes on with the stage that follows
C25_DeadlineEndsOnlyThatOperation ==
    [][ /\ \A i \in DOMAIN worker :
             (worker[i] = "run" /\ i \in DOMAIN worker' /\ worker'[i] = "signal") =>
                 /\ \A j \in DOMAIN worker \ {i} : worker'[j] = worker[j]
                 /\ cpc' = cpc /\ eph' = eph /\ tasks' = tasks
                 /\ fetch' = fetch /\ epIdx' = epIdx /\ logResults' = logResults
                 /\ \A f \in tempDir : FileName(f) # LogsFile(i) => f \in tempDir'
        /\ \A t \in DOMAIN tasks :
             (t \in DOMAIN tasks' /\ tasks[t].result # "deadline"
                /\ tasks'[t].result = "deadline") =>
                 /\ worker' = worker /\ tempDir' = tempDir /\ logResults' = logResults
                 /\ fetch' = fetch /\ epIdx' = epIdx
                 /\ cpc' = CASE tasks[t].purpose = "raise" ->
                                   [stage |-> "tcpdump", step |-> "create"]
                              [] tasks[t].purpose = "tcpdump" ->
                                   [stage |-> "sweep", step |-> "fetch"]
                              [] OTHER -> [stage |-> "ret", step |-> ""]
      ]_vars

\* the packet-capture task has reached its timeout, one log worker has
\* returned, its sibling is still streaming and the sweep is under way
C25_Witness ==
    /\ At("sweep", "fetch")
    /\ \E t \in DOMAIN tasks : tasks[t].purpose = "tcpdump" /\ tasks[t].result = "deadline"
    /\ \E i, j \in DOMAIN worker : worker[i] = "done" /\ worker[j] = "run"
    /\ fetch.attempts > 0

\* the order of the stages before the archive
StatedOrder == <<"raise", "tcpdump", "sweep", "join">>

\* C26: in every cycle the verbosity raise is attempted before any log-stream
\* worker or packet capture is started, the endpoint sweep comes after the
\* fan-out has been started, and the join comes after the sweep
C26_RaiseBeforeFanOut ==
    InCycle =>
        /\ At("raise", "create") => \A i \in DOMAIN worker : worker[i] = "none"
        /\ (\E t \in DOMAIN tasks : tasks[t].purpose = "tcpdump")
              => (Len(trace) >= 2 /\ trace[1] = "raise" /\ trace[2] = "tcpdump")
        /\ trace # <<"ret">>
              => \A k \in 1..Len(trace) : k <= Len(StatedOrder) => trace[k] = StatedOrder[k]

\* C27: the poller of an ephemeral task ends in one of two ways: success,
\* only with the task's container observed Terminated, or failure, on a
\* gateway error or at the deadline.  A task is pending exactly while its
\* poller runs; the name handed back to the caller is that of a task observed
\* Terminated, never of one last seen absent, Waiting or Running; a call
\* whose Get or Update fails returns with no task and without a poll
C27_PollerSucceedsOnlyOnTerminated ==
    /\ \A t \in DOMAIN tasks :
         /\ tasks[t].result \in {"pending", "terminated", "deadline"}
         /\ tasks[t].result = "pending" <=> (eph.pc = "poll" /\ eph.tid = t)
         /\ tasks[t].result = "terminated" <=> tasks[t].observed = "terminated"
         /\ tasks[t].result = "deadline" => ephName # t
    /\ ephName # 0 => (ephName \in DOMAIN tasks /\ tasks[ephName].result = "terminated")
    /\ eph.pc \in {"get", "update"} => (eph.polls = 0 /\ eph.tid = 0)
    /\ eph.pc = "poll" => eph.tid \in DOMAIN tasks
    /\ eph.pc = "none" => eph.polls = 0

\* the raise task was seen Terminated, the packet-capture task reached its
\* deadline, and the reset's create call failed before any task existed
C27_Witness ==
    /\ Len(tasks) = 2
    /\ tasks[1].purpose = "raise" /\ tasks[1].result = "terminated"
    /\ tasks[2].purpose = "tcpdump" /\ tasks[2].result = "deadline"
    /\ cpc = [stage |-> "ret", step |-> ""] /\ "reset" \in Entered

\* the call in progress has made its working directory and started its fan-out
FannedOut == InCycle /\ trace # <<"ret">>

\* the slots whose completion signal has been produced
Signalled == { i \in DOMAIN worker : worker[i] \in {"none", "done"} }

\* C30: the fan-out has one worker per non-empty container name and none
\* for an empty one; every slot produces exactly one signal, each of which is
\* in the channel or has been received by the join; a worker that is about
\* to signal can always send; the join can receive whenever a signal it
\* still waits for has been produced, and it is left only after one signal
\* per slot has been received
C30_OneSignalPerSlot ==
    FannedOut =>
        /\ DOMAIN worker = 1..Len(LogSlots(snap))
        /\ \A i \in DOMAIN worker : worker[i] = "none" <=> LogSlots(snap)[i] = ""
        /\ logResults + joined = Cardinality(Signalled)
        /\ \A i \in DOMAIN worker : worker[i] = "signal" => ENABLED SignalLogResult(i)
        /\ (At("join", "") /\ joined < Cardinality(Signalled)) => ENABLED JoinRecv
        /\ (At("join", "") /\ ENABLED JoinDone) => joined = Len(LogSlots(snap))
        /\ (cpc.stage \in {"archive", "reset", "ret"} /\ "join" \in Entered)
              => (joined = Len(LogSlots(snap)) /\ logResults = 0
                  /\ Signalled = DOMAIN worker)

\* a cycle with an empty primary container name: the join has received the
\* signal of the empty slot and the signal of the sidecar's worker
C30_Witness ==
    /\ FannedOut /\ At("join", "")
    /\ LogSlots(snap)[1] = "" /\ worker = <<"none", "done">>
    /\ joined = 2 /\ logResults = 0

\* C28: PortForwardGET issues the HTTP GET only after it has seen the tunnel
\* ready; when the tunnel is not ready within 12 s, or the forwarder exits
\* before it is ready, the call returns an error without a GET; the body is
\* returned, with no error, only through a ready tunnel and for a response
\* status below 400
C28_GetOnlyThroughReadyTunnel ==
    /\ pf.gets > 0 => (pf.sel = "ready" /\ pf.ready)
    /\ pf.pc \in {"get", "read"} => (pf.sel = "ready" /\ pf.ready)
    /\ pf.pc = "returned" =>
         /\ pf.sel \in {"timeout", "done"} => (pf.err # "" /\ pf.gets = 0)
         /\ (~pf.ready /\ pf.fw # "none") => (pf.err # "" /\ pf.gets = 0)
         /\ pf.err = "" => (pf.sel = "ready" /\ pf.gets = 1 /\ pf.status < 400
                             /\ pf.body = pf.response)
         /\ pf.err # "" => pf.body = EmptyPayload

\* the forwarder exited before it was ready and the call has returned its
\* error without a GET
C28_Witness ==
    /\ pf.pc = "returned" /\ pf.sel = "done" /\ pf.err = "early_exit"
    /\ pf.fw = "exited" /\ ~pf.ready /\ pf.gets = 0

\* C31: a stream still open at its deadline makes streamLogsWithTimeout
\* return the bytes collected so far with no error, and the worker writes
\* them to the container's logs file; a stream error before the deadline is
\* returned, is logged, and no logs file is written
C31_DeadlineReturnsCollectedBytes ==
    sl.pc \in {"returned", "signalled"} =>
        /\ sl.sel = "deadline" => (~sl.err /\ sl.bytes = sl.collected)
        /\ (sl.sel = "deadline" /\ sl.wrote = "ok") => sl.file = <<"file", sl.collected>>
        /\ (sl.sel = "done" /\ sl.err /\ sl.pc = "signalled")
              => (sl.file = <<"none">> /\ sl.logged)

\* C32: when streamLogsWithTimeout returns the buffer's bytes, the log-fetch
\* goroutine has finished its copy, on the deadline path too
C32_NoWriterWhenBytesReturned ==
    sl.pc \in {"returned", "signalled"} => ~sl.writer

\* C33: the goroutine a call leaves behind never blocks on its result
\* channel: after streamLogsWithTimeout returned (on its deadline too) with
\* the fetch still running, and after PortForwardGET returned (on the
\* readiness timeout too) with the forwarder still running, the goroutine's
\* send on done can be taken, and a result sent is the only one in the channel
C33_GoroutineCanDeliver ==
    /\ (sl.pc \in {"returned", "signalled"} /\ sl.fetch = "streaming")
          => ENABLED FetchContainerLogsReturn
    /\ (pf.pc = "returned" /\ pf.fw \in {"running", "forwarding"})
          => ENABLED ForwardPortsReturn
    /\ Len(sl.done) <= 1 /\ Len(pf.done) <= 1

\* both calls returned on their timers and both goroutines then delivered
\* their results and ended
C33_Witness ==
    /\ sl.sel = "deadline" /\ sl.fetch = "exited" /\ Len(sl.done) = 1
    /\ pf.sel = "timeout" /\ pf.pc = "returned" /\ pf.fw = "exited" /\ Len(pf.done) = 1

\* C34: every return of PortForwardGET after the forwarder was started
\* (body returned, GET failure, read failure, status >= 400, early exit,
\* readiness timeout) has closed stopCh exactly once, and stopCh is never
\* closed twice or before a return path
C34_StopIssuedOnce ==
    /\ pf.stops <= 1
    /\ (pf.pc = "returned" /\ pf.fw # "none") => pf.stops = 1
    /\ pf.pc # "returned" => pf.stops = 0

\* the readiness timeout was taken and stopCh is closed
C34_Witness ==
    pf.pc = "returned" /\ pf.sel = "timeout" /\ pf.fw # "none" /\ pf.stops = 1

\* C35: when createTarGz fails, no archive file is left at the output path:
\* <pod>_snapshot.tar.gz exists after a cycle only if createTarGz returned
\* without an error
C35_NoArchiveLeftOnFailure ==
    ("archive" \in Entered /\ ~At("archive", ""))
        => /\ archive.err => archive.state = "none"
           /\ archive.state # "none" => ~archive.err

\* C36: every iteration of the capture loop counts towards the repeat bound,
\* an iteration whose MkdirAll failed included: with repeat = N, once N
\* iterations have run (captures completed plus the failed directory
\* creations just before this one) the loop's repeat check stops it
C36_EveryIterationCounts ==
    (cfg.repeat > 0 /\ lpc = "loop" /\ captures + mkdirFails >= cfg.repeat)
        => StopByRepeat

\* a CaptureSnapshot call has begun for some target
CaptureBegun == \E p \in DOMAIN verb : verb[p].lastCycle >= 0

\* C37: in a duration-bounded run the clock starts when the first capture
\* of a target begins, so the duration check stops the run only after at
\* least one capture cycle; the check is made only at the top of an
\* iteration, so the run never ends inside a started cycle
C37_ClockStartsAtFirstCapture ==
    /\ started => (DurationMode(cfg) /\ CaptureBegun)
    /\ (~CaptureBegun /\ DurationMode(cfg)) => elapsed = 0
    /\ (lpc = "done" /\ StopByDuration) => CaptureBegun
    /\ lpc = "done" => At("idle", "")

\* a duration-bounded run that the duration check stopped, after one cycle
C37_Witness ==
    /\ lpc = "done" /\ DurationMode(cfg) /\ started /\ elapsed >= cfg.duration
    /\ captures = 1 /\ CaptureBegun /\ SnapshotReturned

\* the candidate of highest priority among the pod's containers, "" if none
FirstPresent(pod) ==
    IF \E i \in 1..Len(TcpdumpCandidates) : TcpdumpCandidates[i] \in Range(pod)
    THEN TcpdumpCandidates[CHOOSE i \in 1..Len(TcpdumpCandidates) :
                             /\ TcpdumpCandidates[i] \in Range(pod)
                             /\ \A j \in 1..(i - 1) : TcpdumpCandidates[j] \notin Range(pod)]
    ELSE ""

\* C38: the packet-capture target is the first of consul-dataplane,
\* envoy-sidecar, mesh-gateway, api-gateway that exists in the pod; if none
\* exists it is the first container the caller supplied; if the caller
\* supplied none, the error is returned and no ephemeral task is started
C38_TargetByFixedPriority ==
    tt.pc = "chosen" =>
        IF FirstPresent(tt.pod) # ""
        THEN ~tt.err /\ tt.started /\ tt.target = FirstPresent(tt.pod)
        ELSE IF tt.containers # <<>>
        THEN ~tt.err /\ tt.started /\ tt.target = tt.containers[1]
        ELSE tt.err /\ ~tt.started /\ tt.target = ""

=============================================================================
